---- MODULE Spec2Model ----
(***************************************************************************)
(* CrossOver trial manager GUI (src/main.py): the action coordinator       *)
(* (run_bash_script / _finalize_script_run), the script worker thread,     *)
(* the update-check thread, the log queue and the checksum verification,   *)
(* as one state machine.                                                   *)
(*                                                                         *)
(* Threads: the Tk UI thread (button callbacks, `after` callbacks, the     *)
(* nested event loop of a modal dialog), one worker thread per accepted    *)
(* run_bash_script call, one thread per accepted update check.             *)
(***************************************************************************)
EXTENDS Integers, Sequences, FiniteSets, TLC

\* ---------------------------------------------------------------- bounds
\* Spec: one invocation from trigger to finalization
MaxRuns == 1        \* accepted run_bash_script calls (worker threads ever started)
MaxRejects == 1     \* rejected run_bash_script calls
MaxUpdates == 1     \* update checks ever started
MaxLines == 1       \* output lines one subprocess prints
\* SpecVerify: the startup checks, over several launches
MaxLaunches == 2
\* SpecRace: two invocations and the update check
RaceRuns == 2
RaceRejects == 0
RaceUpdates == 1
RaceLines == 1
\* SpecCount: one invocation of a script that prints several lines
CountLines == 3
\* SpecLog: one invocation, the drain one entry at a time, the Clear button
LogLines == 2
MaxExportErrors == 1
\* SpecBadge: two invocations of one action, one after the other
BadgeRuns == 2
BadgeLines == 1


\* ------------------------------------------------------------- constants
NONE == "None"                                   \* Python's None
ActionKeys == {"execute", "install", "uninstall"}
UPDATE == "update"
ExitCodes == {0, 2, 137}                         \* exit codes a subprocess returns

\* A text is a sequence of tokens (strings); "\n" is the newline token.
Entry(text, level) == [text |-> text, log_level |-> level]

Upper(a) == CASE a = "execute" -> "EXECUTE"
              [] a = "install" -> "INSTALL"
              [] a = "uninstall" -> "UNINSTALL"
              [] OTHER -> "UPDATE"

RcStr(rc) == CASE rc = 0 -> "0"
               [] rc = 2 -> "2"
               [] rc = 137 -> "137"
               [] OTHER -> "-1"

\* f"\n=== [{action_key.upper()}] START ===\n"
StartText(a) == <<"\n", "=== [", Upper(a), "] START ===", "\n">>
\* f"=== [{action_key.upper()}] END (Exit Code: {return_code}) ===\n"
EndText(a, rc) == <<"=== [", Upper(a), "] END (Exit Code: ", RcStr(rc), ") ===", "\n">>
CmdText(a) == <<"[CMD]", " Running: bash script.sh ", a>>
SummaryOkText(rc) == <<"[SUCCESS]", " Script finished successfully (Code: ", RcStr(rc), ").">>
SummaryErrText(rc) == <<"[ERROR]", " Script finished with error (Code: ", RcStr(rc), ").">>
NotFoundText == <<"[ERROR]", " Command 'bash' or script not found.">>
UnexpectedText == <<"[ERROR]", " Unexpected error during script execution">>
CannotRunText == <<"[ERROR]", " Cannot run script (not found or not executable).">>
CancelledText == <<"[WARNING]", " Execution cancelled by user due to invalid checksum.">>

\* The lines a subprocess may print (readline keeps the trailing newline).
ScriptLines == { <<"[STEP]", " start", "\n">>,
                 <<"[SUCCESS]", " done", "\n">>,
                 <<"[ERROR]", " boom", "\n">>,
                 <<"note ", "[ERROR]", " seen", "\n">> }

\* The bounds and input alphabets one specification explores under: the calls it
\* accepts and rejects, the update checks it starts, the lines a subprocess prints
\* and which, the action keys the user triggers.
Limits(r, j, u, l, alphabet, keys) ==
  [runs |-> r, rejects |-> j, updates |-> u, lines |-> l, alphabet |-> alphabet, keys |-> keys]

\* Python's `tok in line` at token granularity.
Contains(line, tok) == \E i \in 1..Len(line) : line[i] = tok

\* ------------------------------------------------------------- variables
VARIABLES
  lim,               \* the bounds of this exploration (never changes)
  phase,             \* "init": constructed, startup checks not yet run; "main": mainloop
  fs_exists,         \* the script file exists on disk
  fs_exec,           \* the script file has its executable bit
  fs_hash,           \* digest of the script's current content
  cks_file,          \* the checksum record file: [exists, content (tokens)]
  script_found,      \* self.script_found
  script_executable, \* self.script_executable
  checksum_valid,    \* self.checksum_valid: "True", "False" or NONE
  current_action,    \* self.current_action: NONE, an action key or "update"
  flag_writer,       \* the thread that last assigned current_action: "ui" or "worker"
  ui,                \* UI thread: [pc |-> "idle"] or inside the askyesno dialog
  dialogs,           \* modal dialogs the coordinator has shown so far, counted by message
  action_buttons,    \* state of the execute/install/uninstall buttons: "normal" or "disabled"
  runs,              \* one record per worker thread ever started, in start order
  upd_threads,       \* update-check threads in flight
  upd_started,       \* update checks ever started
  startup_timer,     \* after(3000, check_for_updates_threaded) is pending
  after_queue,       \* callbacks scheduled with after(0, ...), FIFO
  log_queue,         \* log_queue (queue.Queue of entries)
  full_log,          \* self.full_log
  output_box,        \* the lines self.output_box displays, each with its tag
  badges,            \* displayed badge counts per action key
  timers,            \* pending after(BADGE_SUCCESS_TIMEOUT_MS, ...) badge resets, FIFO
  controls,          \* state of the other controls: [other, clear, help, search_entry]
  search_var,        \* self.search_var: the filter query typed so far (tokens)
  exported,          \* the file export_log wrote last: [written, text (tokens)]
  rejects,           \* rejected run_bash_script calls, by reason
  passes             \* one record per verify_checksum pass, over all launches

fsvars == <<fs_exists, fs_exec, fs_hash, cks_file>>
flagvars == <<script_found, script_executable, checksum_valid>>
logvars == <<log_queue, full_log, output_box>>
viewvars == <<search_var, exported, controls>>
updvars == <<upd_threads, upd_started, startup_timer>>
\* the program's own state: everything but the record of rejected calls
progvars == <<phase, fsvars, flagvars, current_action, flag_writer, ui, action_buttons, dialogs,
              runs,
              updvars, after_queue, logvars, badges, timers, viewvars>>
vars == <<progvars, rejects, lim, passes>>

\* The history followed by the queue content: while clear_log is not called, every
\* entry pushed so far, in push order.
Pushed ==
  [i \in 1..Len(full_log) |-> full_log[i]] \o [i \in 1..Len(log_queue) |-> log_queue[i].text]

\* The checksum record files a run may start with: none, the script's digest (with
\* or without a trailing newline), another digest.
NoFile == [exists |-> FALSE, content |-> <<>>]
FileOf(content) == [exists |-> TRUE, content |-> content]
CksFiles == {NoFile, FileOf(<<"h1">>), FileOf(<<"h1", "\n">>), FileOf(<<"h2">>)}

\* The dialogs of run_bash_script and _finalize_script_run, by message.
Messages == {"status_script_not_found", "status_script_not_exec", "proceed_anyway",
             "done", "error_occurred"}
NoDialogs == [m \in Messages |-> 0]
\* messagebox.showerror / showinfo / askyesno with message m
Show(d, m) == [d EXCEPT ![m] = @ + 1]

ZeroBadges == [a \in ActionKeys |-> [success |-> 0, error |-> 0]]

\* The controls as _create_ui_layout builds them: the refresh_status and export
\* buttons (other), the clear and help buttons, the search entry.
NormalControls ==
  [other |-> "normal", clear |-> "normal", help |-> "normal", search_entry |-> "normal"]

\* The script files a run may start with.
Script(exists, exec) == [exists |-> exists, exec |-> exec]
MissingScript == Script(FALSE, FALSE)
PlainScript == Script(TRUE, FALSE)
ExecutableScript == Script(TRUE, TRUE)

\* CrossOverApp.__init__: the state after construction, with one of `scripts` and
\* one of `records` on disk.
InitState(l, scripts, records) ==
  /\ lim = l
  /\ phase = "init"
  /\ \E f \in scripts : fs_exists = f.exists /\ fs_exec = f.exec
  /\ fs_hash = "h1"
  /\ cks_file \in records
  /\ script_found = FALSE
  /\ script_executable = FALSE
  /\ checksum_valid = NONE
  /\ current_action = NONE
  /\ flag_writer = "ui"
  /\ ui = [pc |-> "idle", action |-> NONE]
  /\ action_buttons = "normal"
  /\ dialogs = NoDialogs
  /\ runs = <<>>
  /\ upd_threads = 0
  /\ upd_started = 0
  /\ startup_timer \in BOOLEAN
  /\ after_queue = <<>>
  /\ log_queue = <<>>
  /\ full_log = <<>>
  /\ output_box = <<>>
  /\ search_var = <<>>
  /\ exported = [written |-> FALSE, text |-> <<>>]
  /\ controls = NormalControls
  /\ badges = ZeroBadges
  /\ timers = <<>>
  /\ rejects = [busy |-> 0, script |-> 0, refused |-> 0]
  /\ passes = <<>>

Init ==
  InitState(Limits(MaxRuns, MaxRejects, MaxUpdates, MaxLines, ScriptLines, ActionKeys),
            {MissingScript, ExecutableScript},
            {NoFile, FileOf(<<"h1">>), FileOf(<<"h2">>)})

\* ------------------------------------------------------ checksum verification
IsSpace(tok) == tok \in {" ", "\n", "\t"}

\* A record read without trimming, for comparison.
NoStrip(s) == s

\* str.strip() at token granularity: drop leading and trailing whitespace tokens.
RECURSIVE LStrip(_)
LStrip(s) == IF s # <<>> /\ IsSpace(Head(s)) THEN LStrip(Tail(s)) ELSE s
RECURSIVE RStrip(_)
RStrip(s) == IF s # <<>> /\ IsSpace(s[Len(s)]) THEN RStrip(SubSeq(s, 1, Len(s) - 1)) ELSE s
Strip(s) == LStrip(RStrip(s))

\* An answer that is not looked at, for comparison.
UserChoiceIgnored(consent) == TRUE

\* An answer always taken as no, for comparison.
UserChoiceRefused(consent) == FALSE

\* user_choice = messagebox.askyesno(...), as `if user_choice:` tests it.
UserChoice(consent) == consent

\* An except clause that catches only the class it names, for comparison.
HandlesExactly(clause, exc) == clause = exc

\* `except clause:` catches exc: every exception modelled here is a subclass of
\* Exception, and FileNotFoundError is caught by its own clause too.
Handles(clause, exc) == clause = "Exception" \/ clause = exc

\* An update that reports success without writing, for comparison.
UpdateChecksumFileNoWrite(file, hash_to_write, writing) ==
  [file |-> file, ok |-> TRUE, logs |-> <<>>, exc |-> NONE]

\* What one pass of _update_checksum_file yields: the file, whether it returned
\* True, the lines it logged, and the exception it lets out (NONE: none).
\* writing: "ok"; "PermissionError" (makedirs or open raises: the file is not
\* touched); "OSError" (open has truncated or created the file, then write or
\* close raises: the file is there and empty).
UpdateChecksumFile(file, hash_to_write, writing) ==
  LET left == IF writing = "OSError" THEN FileOf(<<>>) ELSE file
  IN
  IF writing = "ok"
  THEN [file |-> FileOf(<<hash_to_write>>), ok |-> TRUE, logs |-> <<>>, exc |-> NONE]
  ELSE IF Handles("Exception", writing)
  THEN [file |-> left, ok |-> FALSE,
        logs |-> <<Entry(<<"[ERROR]", " Failed to write checksum file">>, "ERROR")>>,
        exc |-> NONE]
  ELSE [file |-> left, ok |-> FALSE, logs |-> <<>>, exc |-> writing]

\* A verification that is never skipped, for comparison.
SkipNever(found) == FALSE

\* `if not self.script_found: return`
Skip(found) == ~found

\* One pass of verify_checksum. hashing: "ok", "FileNotFoundError" or
\* "PermissionError" (reading the script); readable: the record file can be read;
\* consent: the user's answer if asked; writing: see UpdateChecksumFile.
\* Yields checksum_valid, the record file, the lines logged, whether the user
\* was asked, whether the file was written, and whether an exception leaves
\* verify_checksum.
VerifyChecksum(found, cur, file, hashing, readable, consent, writing) ==
  LET res(valid, f, logs, asked, wrote) ==
        [valid |-> valid, file |-> f, logs |-> logs, asked |-> asked, wrote |-> wrote,
         raised |-> FALSE]
      \* exc reaches the except clauses of the outer try (lines 743-749).
      outer(exc, f, logs, asked) ==
        IF Handles("FileNotFoundError", exc) THEN
          res(NONE, f,
              logs \o <<Entry(<<"[ERROR]", " Script file not found during checksum calculation">>,
                              "ERROR")>>,
              asked, FALSE)
        ELSE IF Handles("Exception", exc) THEN
          res(NONE, f,
              logs \o <<Entry(<<"[ERROR]", " Error during checksum verification/handling">>,
                              "ERROR")>>,
              asked, FALSE)
        ELSE [valid |-> NONE, file |-> f, logs |-> logs, asked |-> asked, wrote |-> FALSE,
              raised |-> TRUE]
      upd == UpdateChecksumFile(file, cur, writing)
      user_choice == UserChoice(consent)
      expected == Strip(file.content)
  IN
  IF Skip(found) THEN res(NONE, file, <<>>, FALSE, FALSE)
  ELSE IF hashing # "ok" THEN outer(hashing, file, <<>>, FALSE)
  ELSE IF file.exists THEN
    IF ~readable THEN
      res(NONE, file, <<Entry(<<"[ERROR]", " Failed to read checksum file">>, "ERROR")>>,
          FALSE, FALSE)
    ELSE IF expected = <<cur>> THEN
      res("True", file, <<Entry(<<"[INFO]", " Checksum verified.">>, "INFO")>>, FALSE, FALSE)
    ELSE
      LET mismatch == << Entry(<<"[ERROR]", " Checksum mismatch for script.sh!">>, "ERROR"),
                         Entry(<<"[ERROR]", "   Expected : ">> \o expected, "ERROR"),
                         Entry(<<"[ERROR]", "   Calculated: ", cur>>, "ERROR") >>
      IN IF user_choice THEN
           IF upd.exc # NONE THEN outer(upd.exc, upd.file, mismatch, TRUE)
           ELSE IF upd.ok
           THEN res("True", upd.file,
                    mismatch \o <<Entry(<<"[INFO]", " Checksum file updated.">>, "INFO")>>,
                    TRUE, TRUE)
           ELSE res("False", upd.file,
                    mismatch \o upd.logs
                      \o <<Entry(<<"[ERROR]", " Failed to update checksum file.">>, "ERROR")>>,
                    TRUE, FALSE)
         ELSE res("False", file,
                  mismatch \o <<Entry(<<"[WARNING]", " Checksum mismatch ignored.">>, "WARNING")>>,
                  TRUE, FALSE)
  ELSE
    LET missing == <<Entry(<<"[WARNING]", " Checksum file not found.">>, "WARNING")>>
    IN IF user_choice THEN
         IF upd.exc # NONE THEN outer(upd.exc, upd.file, missing, TRUE)
         ELSE IF upd.ok
         THEN res("True", upd.file,
                  missing \o <<Entry(<<"[INFO]", " Checksum file created.">>, "INFO")>>,
                  TRUE, TRUE)
         ELSE res(NONE, upd.file,
                  missing \o upd.logs
                    \o <<Entry(<<"[ERROR]", " Failed to create checksum file.">>, "ERROR")>>,
                  TRUE, FALSE)
       ELSE res(NONE, file,
                missing \o <<Entry(<<"[INFO]", " Checksum file not created.">>, "INFO")>>,
                TRUE, FALSE)

\* _check_script_status, run once from __main__ before the main loop starts.
\* chmod: "ok" (the bit is set), "noeffect" (chmod returns, still not executable),
\* "error" (chmod raises). An exception leaving verify_checksum would leave
\* _check_script_status before the buttons are configured (lines 654-659).
CheckScriptStatus(chmod, hashing, readable, consent, writing) ==
  LET found == fs_exists
      fixed == found /\ ~fs_exec /\ chmod = "ok"
      executable == found /\ (fs_exec \/ fixed)
      execlogs ==
        IF ~found \/ fs_exec THEN <<>>
        ELSE <<Entry(<<"[WARNING]", " script not executable. Trying to fix...">>, "WARNING")>>
             \o (CASE chmod = "ok" -> <<Entry(<<"[INFO]", " Made script executable">>, "INFO")>>
                   [] chmod = "noeffect" ->
                        <<Entry(<<"[ERROR]", " Failed to make script executable">>, "ERROR")>>
                   [] OTHER ->
                        <<Entry(<<"[ERROR]", " Error changing script permissions">>, "ERROR")>>)
      v == VerifyChecksum(found, fs_hash, cks_file, hashing, readable, consent, writing)
  IN
  /\ phase = "init"
  /\ phase' = "main"
  /\ script_found' = found
  /\ script_executable' = executable
  /\ fs_exec' = (fs_exec \/ fixed)
  /\ checksum_valid' = v.valid
  /\ cks_file' = v.file
  /\ log_queue' = log_queue \o
       (IF found THEN execlogs \o v.logs
        ELSE <<Entry(<<"[ERROR]", " ERROR: script.sh script not found!">>, "ERROR")>>)
  /\ action_buttons' = (IF v.raised THEN action_buttons
                        ELSE IF found /\ executable THEN "normal" ELSE "disabled")
  /\ passes' = Append(passes,
       [found |-> found, stored |-> cks_file, current |-> fs_hash,
        hashing |-> hashing, readable |-> readable, writing |-> writing,
        logs |-> v.logs, raised |-> v.raised,
        answer |-> IF ~v.asked THEN "not_asked"
                   ELSE IF consent THEN "granted" ELSE "denied",
        valid |-> v.valid, after |-> v.file])
  /\ UNCHANGED <<fs_exists, fs_hash, current_action, flag_writer, ui, runs, updvars,
                 after_queue, full_log, output_box, badges, timers, rejects, lim, dialogs,
                 viewvars>>

\* ------------------------------------------------------------- coordinator
Rejected == rejects.busy + rejects.script + rejects.refused

\* A _log that drops the entry, for comparison.
LogDropped(q, text, level) == q

\* self._log: put one entry on the queue.
Log(q, text, level) == Append(q, Entry(text, level))

\* after(0, lambda c=count: self._update_badge(action_key, badge_type, c))
BadgeCall(i, a, type, count) ==
  [kind |-> "badge", run |-> i, action |-> a, badge_type |-> type, arg |-> count]
\* after(0, self._finalize_script_run, action_key, return_code)
FinalizeCall(i, a, rc) ==
  [kind |-> "finalize", run |-> i, action |-> a, badge_type |-> "", arg |-> rc]

\* _set_ui_busy: the states it configures. The loop leaves "clear" and "help"
\* alone when busy and sets them to normal otherwise; the statement after the
\* loop then sets "clear" by itself.
SetUiBusyControls(c, busy) ==
  LET state == IF busy THEN "disabled" ELSE "normal"
  IN [other |-> state,
      clear |-> IF busy THEN "disabled" ELSE "normal",
      help |-> IF busy THEN c.help ELSE "normal",
      search_entry |-> state]

\* _set_ui_busy: the value it assigns to current_action.
SetUiBusy(busy, action_key) == IF busy THEN action_key ELSE NONE

\* The record mismatches the script's content right now.
RecordMismatch == cks_file.exists /\ Strip(cks_file.content) # <<fs_hash>>

\* A weaker first guard, for comparison: only a call for the action in flight returns.
BusyGuardSameAction(action_key) == current_action = action_key

\* run_bash_script's first guard: some action is in flight.
BusyGuard(action_key) == current_action # NONE

\* A second guard that lets every call through, for comparison.
ScriptGuardOff == FALSE

\* A second guard that looks at script_found only, for comparison.
ScriptGuardFoundOnly == ~script_found

\* run_bash_script's second guard: the script cannot be run.
ScriptGuard == ~script_found \/ ~script_executable

\* A weaker third guard, for comparison: "execute" is not gated.
TrustGuardInstallOnly(action_key) ==
  action_key \in {"install", "uninstall"} /\ checksum_valid = "False"

\* A stricter third guard, for comparison: anything but a verified script is gated.
TrustGuardNotTrue(action_key) ==
  action_key \in {"install", "uninstall", "execute"} /\ checksum_valid # "True"

\* run_bash_script's third guard: the user must confirm.
TrustGuard(action_key) ==
  action_key \in {"install", "uninstall", "execute"} /\ checksum_valid = "False"

\* A reset of the badges of every action, for comparison.
ResetBadgesAll(b, action_key) == [a \in DOMAIN b |-> [success |-> 0, error |-> 0]]

\* _reset_badges(action_key): both badges of that action back to 0.
ResetBadges(b, action_key) == [b EXCEPT ![action_key] = [success |-> 0, error |-> 0]]

\* run_bash_script from _set_ui_busy(True, ...) to thread.start(): the tail every
\* accepted call runs. consent: "granted" after the dialog, "not_asked" otherwise.
StartRun(action_key, consent) ==
  /\ Len(runs) < lim.runs
  /\ current_action' = SetUiBusy(TRUE, action_key)
  /\ flag_writer' = "ui"
  /\ badges' = ResetBadges(badges, action_key)
  /\ runs' = Append(runs,
       [action |-> action_key, pc |-> "begin", success_count |-> 0, error_count |-> 0,
        return_code |-> -1, nread |-> 0, output |-> <<>>, spawned |-> FALSE,
        raised |-> FALSE,
        notified |-> <<>>,
        consent |-> consent, trust |-> checksum_valid,
        on_disk |-> fs_exists /\ fs_exec, mismatch |-> RecordMismatch,
        button |-> action_buttons])
  /\ action_buttons' = "disabled"
  /\ controls' = SetUiBusyControls(controls, TRUE)
  /\ ui' = [pc |-> "idle", action |-> NONE]

\* run_bash_script(action_key), called on the UI thread while no dialog is open.
\* The method is the entry point: a call need not come from an enabled button (each
\* run records the state the buttons were in when it was called).
run_bash_script(action_key) ==
  /\ phase = "main"
  /\ ui.pc = "idle"
  /\ IF BusyGuard(action_key) THEN
       /\ Rejected < lim.rejects
       /\ rejects' = [rejects EXCEPT !.busy = @ + 1]
       /\ UNCHANGED <<progvars, lim, passes>>
     ELSE IF ScriptGuard THEN
       /\ Rejected < lim.rejects
       /\ rejects' = [rejects EXCEPT !.script = @ + 1]
       /\ log_queue' = Log(log_queue, CannotRunText, "ERROR")
       /\ dialogs' = Show(dialogs, IF ~script_found THEN "status_script_not_found"
                                                     ELSE "status_script_not_exec")
       /\ UNCHANGED <<phase, fsvars, flagvars, current_action, flag_writer, ui, runs,
                      updvars, after_queue, full_log, output_box, badges, timers, lim,
                      action_buttons, passes, viewvars>>
     ELSE IF TrustGuard(action_key) THEN
       /\ Len(runs) < lim.runs
       /\ ui' = [pc |-> "ask", action |-> action_key]
       /\ dialogs' = Show(dialogs, "proceed_anyway")
       /\ UNCHANGED <<phase, fsvars, flagvars, current_action, flag_writer, runs, updvars,
                      after_queue, logvars, badges, timers, rejects, lim, action_buttons,
                      passes, viewvars>>
     ELSE
       /\ StartRun(action_key, "not_asked")
       /\ UNCHANGED <<phase, fsvars, flagvars, updvars, after_queue, logvars, timers,
                      rejects, lim, dialogs, passes, search_var, exported>>

\* The user answers "Proceed anyway?" (messagebox.askyesno returns).
AnswerProceed(yes) ==
  /\ ui.pc = "ask"
  /\ IF yes THEN
       /\ StartRun(ui.action, "granted")
       /\ UNCHANGED <<phase, fsvars, flagvars, updvars, after_queue, logvars, timers,
                      rejects, lim, dialogs, passes, search_var, exported>>
     ELSE
       /\ Rejected < lim.rejects
       /\ rejects' = [rejects EXCEPT !.refused = @ + 1]
       /\ log_queue' = Log(log_queue, CancelledText, "WARNING")
       /\ ui' = [pc |-> "idle", action |-> NONE]
       /\ UNCHANGED <<phase, fsvars, flagvars, current_action, flag_writer, runs, updvars,
                      after_queue, full_log, output_box, badges, timers, lim,
                      action_buttons, dialogs, passes, viewvars>>

\* ------------------------------------------------------- script worker thread
\* task(): the START marker and the command line, up to the Popen call.
TaskBegin(i) ==
  /\ runs[i].pc = "begin"
  /\ log_queue' = Log(Log(log_queue, StartText(runs[i].action), "STEP"),
                      CmdText(runs[i].action), "CMD")
  /\ runs' = [runs EXCEPT ![i].pc = "popen"]
  /\ UNCHANGED <<phase, fsvars, flagvars, current_action, flag_writer, ui, updvars,
                 after_queue, full_log, output_box, badges, timers, rejects, lim,
                 action_buttons, dialogs, passes, viewvars>>

\* An except clause with no finally clause after it, for comparison: the error is
\* logged and counted, the END marker and the finalization are skipped.
TaskExceptNoFinally(i, text) ==
  LET a == runs[i].action
      ec == runs[i].error_count + 1
  IN
  /\ log_queue' = Log(log_queue, text, "ERROR")
  /\ runs' = [runs EXCEPT ![i].pc = "done", ![i].return_code = -1, ![i].error_count = ec,
                          ![i].raised = TRUE]
  /\ after_queue' = Append(after_queue, BadgeCall(i, a, "error", ec))
  /\ UNCHANGED <<phase, fsvars, flagvars, current_action, flag_writer, ui, updvars,
                 full_log, output_box, badges, timers, rejects, lim, action_buttons,
                 dialogs, passes, viewvars>>

\* An except clause that logs the error but does not count it, for comparison.
TaskExceptNoCount(i, text) ==
  LET a == runs[i].action
  IN
  /\ log_queue' = Log(Log(log_queue, text, "ERROR"), EndText(a, -1), "STEP")
  /\ runs' = [runs EXCEPT ![i].pc = "done", ![i].return_code = -1, ![i].raised = TRUE]
  /\ after_queue' = Append(after_queue, FinalizeCall(i, a, -1))
  /\ UNCHANGED <<phase, fsvars, flagvars, current_action, flag_writer, ui, updvars,
                 full_log, output_box, badges, timers, rejects, lim, action_buttons,
                 dialogs, passes, viewvars>>

\* task()'s except clauses followed by its finally clause.
TaskExcept(i, text) ==
  LET a == runs[i].action
      ec == runs[i].error_count + 1
  IN
  /\ log_queue' = Log(Log(log_queue, text, "ERROR"), EndText(a, -1), "STEP")
  /\ runs' = [runs EXCEPT ![i].pc = "done", ![i].return_code = -1, ![i].error_count = ec,
                          ![i].raised = TRUE]
  /\ after_queue' = after_queue \o <<BadgeCall(i, a, "error", ec), FinalizeCall(i, a, -1)>>
  /\ UNCHANGED <<phase, fsvars, flagvars, current_action, flag_writer, ui, updvars,
                 full_log, output_box, badges, timers, rejects, lim, action_buttons,
                 dialogs, passes, viewvars>>

\* subprocess.Popen returns or raises.
TaskPopen(i, outcome) ==
  /\ runs[i].pc = "popen"
  /\ CASE outcome = "ok" ->
            /\ runs' = [runs EXCEPT ![i].pc = "stream", ![i].spawned = TRUE]
            /\ UNCHANGED <<phase, fsvars, flagvars, current_action, flag_writer, ui,
                           updvars, after_queue, logvars, badges, timers, rejects, lim,
                           action_buttons, dialogs, passes, viewvars>>
       [] outcome = "FileNotFoundError" -> TaskExcept(i, NotFoundText)
       [] OTHER -> TaskExcept(i, UnexpectedText)

\* One pass of the readline loop.
TaskReadLine(i, line) ==
  LET a == runs[i].action
      isErr == Contains(line, "[ERROR]")
      isSucc == Contains(line, "[SUCCESS]")
      ec == runs[i].error_count + (IF isErr THEN 1 ELSE 0)
      sc == runs[i].success_count + (IF isSucc THEN 1 ELSE 0)
  IN
  /\ runs[i].pc = "stream"
  /\ runs[i].nread < lim.lines
  /\ log_queue' = Log(log_queue, line, "CMD")
  /\ runs' = [runs EXCEPT ![i].nread = @ + 1, ![i].output = Append(@, line),
                          ![i].error_count = ec, ![i].success_count = sc]
  /\ after_queue' = after_queue
       \o (IF isErr THEN <<BadgeCall(i, a, "error", ec)>> ELSE <<>>)
       \o (IF isSucc THEN <<BadgeCall(i, a, "success", sc)>> ELSE <<>>)
  /\ UNCHANGED <<phase, fsvars, flagvars, current_action, flag_writer, ui, updvars,
                 full_log, output_box, badges, timers, rejects, lim, action_buttons,
                 dialogs, passes, viewvars>>

\* An exception while reading the output.
TaskStreamFail(i) ==
  /\ runs[i].pc = "stream"
  /\ TaskExcept(i, UnexpectedText)

\* An exit path that counts the runner's own summary line, for comparison.
TaskExitCountsSummary(i, rc) ==
  LET a == runs[i].action
      sc == runs[i].success_count + (IF rc = 0 THEN 1 ELSE 0)
      ec == runs[i].error_count + (IF rc # 0 THEN 1 ELSE 0)
  IN
  /\ runs[i].pc = "stream"
  /\ log_queue' = Log(IF rc = 0 THEN Log(log_queue, SummaryOkText(rc), "SUCCESS")
                                ELSE Log(log_queue, SummaryErrText(rc), "ERROR"),
                      EndText(a, rc), "STEP")
  /\ runs' = [runs EXCEPT ![i].pc = "done", ![i].return_code = rc,
                          ![i].success_count = sc, ![i].error_count = ec]
  /\ after_queue' = after_queue
       \o (IF rc = 0 THEN <<BadgeCall(i, a, "success", sc)>>
                     ELSE <<BadgeCall(i, a, "error", ec)>>)
       \o <<FinalizeCall(i, a, rc)>>
  /\ UNCHANGED <<phase, fsvars, flagvars, current_action, flag_writer, ui, updvars,
                 full_log, output_box, badges, timers, rejects, lim, action_buttons,
                 dialogs, passes, viewvars>>

\* An exit path that forces no counter, for comparison.
TaskExitNoForce(i, rc) ==
  LET a == runs[i].action
  IN
  /\ runs[i].pc = "stream"
  /\ log_queue' = Log(IF rc = 0 THEN Log(log_queue, SummaryOkText(rc), "SUCCESS")
                                ELSE Log(log_queue, SummaryErrText(rc), "ERROR"),
                      EndText(a, rc), "STEP")
  /\ runs' = [runs EXCEPT ![i].pc = "done", ![i].return_code = rc]
  /\ after_queue' = Append(after_queue, FinalizeCall(i, a, rc))
  /\ UNCHANGED <<phase, fsvars, flagvars, current_action, flag_writer, ui, updvars,
                 full_log, output_box, badges, timers, rejects, lim, action_buttons,
                 dialogs, passes, viewvars>>

\* End of output: proc.wait() returns rc; the summary line, then the finally clause.
TaskExit(i, rc) ==
  LET a == runs[i].action
      forceS == rc = 0 /\ runs[i].success_count = 0
      forceE == rc # 0 /\ runs[i].error_count = 0
  IN
  /\ runs[i].pc = "stream"
  /\ log_queue' = Log(IF rc = 0 THEN Log(log_queue, SummaryOkText(rc), "SUCCESS")
                                ELSE Log(log_queue, SummaryErrText(rc), "ERROR"),
                      EndText(a, rc), "STEP")
  /\ runs' = [runs EXCEPT ![i].pc = "done", ![i].return_code = rc,
                          ![i].success_count = IF forceS THEN 1 ELSE @,
                          ![i].error_count = IF forceE THEN 1 ELSE @]
  /\ after_queue' = after_queue
       \o (IF forceS THEN <<BadgeCall(i, a, "success", 1)>> ELSE <<>>)
       \o (IF forceE THEN <<BadgeCall(i, a, "error", 1)>> ELSE <<>>)
       \o <<FinalizeCall(i, a, rc)>>
  /\ UNCHANGED <<phase, fsvars, flagvars, current_action, flag_writer, ui, updvars,
                 full_log, output_box, badges, timers, rejects, lim, action_buttons,
                 dialogs, passes, viewvars>>

\* --------------------------------------------------- UI thread: `after` callbacks
\* _update_badge(action_key, badge_type, count)
UpdateBadge(b, a, type, count) ==
  IF type = "success" THEN [b EXCEPT ![a].success = count] ELSE [b EXCEPT ![a].error = count]

\* A dialog chosen by the sign of return_code, for comparison.
NotificationBySign(return_code) == IF return_code >= 0 THEN "showinfo" ELSE "showerror"

\* _finalize_script_run: the dialog it shows for return_code.
Notification(return_code) == IF return_code = 0 THEN "showinfo" ELSE "showerror"

\* The message of that dialog: TXT['done'] or TXT['error_occurred'].
NotificationText(return_code) == IF return_code = 0 THEN "done" ELSE "error_occurred"

\* _finalize_script_run(action_key, return_code), for the worker of run i.
FinalizeScriptRun(i, action_key, return_code) ==
  /\ current_action' = SetUiBusy(FALSE, action_key)
  /\ flag_writer' = "ui"
  /\ runs' = [runs EXCEPT ![i].pc = "finalized",
                          ![i].notified = Append(@, Notification(return_code))]
  /\ timers' = IF return_code = 0 THEN Append(timers, action_key) ELSE timers
  /\ action_buttons' = "normal"
  /\ controls' = SetUiBusyControls(controls, FALSE)
  /\ dialogs' = Show(dialogs, NotificationText(return_code))
  /\ UNCHANGED badges

\* The event loop (the main loop, or the nested loop of the open dialog) runs the
\* oldest after(0, ...) callback.
RunAfter ==
  /\ after_queue # <<>>
  /\ LET c == Head(after_queue) IN
       /\ after_queue' = Tail(after_queue)
       /\ IF c.kind = "badge"
          THEN /\ badges' = UpdateBadge(badges, c.action, c.badge_type, c.arg)
               /\ UNCHANGED <<current_action, flag_writer, runs, timers, action_buttons,
                              dialogs, controls>>
          ELSE FinalizeScriptRun(c.run, c.action, c.arg)
  /\ UNCHANGED <<phase, fsvars, flagvars, ui, updvars, logvars, rejects, lim, passes,
                 search_var, exported>>

\* after(BADGE_SUCCESS_TIMEOUT_MS, lambda: self._update_badge(action_key, "success", 0))
BadgeTimerFires ==
  /\ timers # <<>>
  /\ badges' = UpdateBadge(badges, Head(timers), "success", 0)
  /\ timers' = Tail(timers)
  /\ UNCHANGED <<phase, fsvars, flagvars, current_action, flag_writer, ui, runs, updvars,
                 after_queue, logvars, rejects, lim, action_buttons, dialogs, passes,
                 viewvars>>

\* The ANSI escape sequences a line may carry (one token each).
AnsiCodes == {"ESC[31m", "ESC[0m", "ESC[K"}
\* re.sub(r'\x1B\[[0-9;]*[mK]', '', text)
StripAnsi(text) == SelectSeq(text, LAMBDA tok : tok \notin AnsiCodes)
\* the cleaned text both _append_text_to_gui and filter_log display
CleanText(text) == RStrip(StripAnsi(text))

\* re.match(r'^\[(STEP|INFO|SUCCESS|WARNING|ERROR)\]', clean_text): the tag matched,
\* or NONE.
LeadingTag(clean) ==
  IF clean = <<>> THEN NONE
  ELSE CASE Head(clean) = "[STEP]" -> "STEP"
         [] Head(clean) = "[INFO]" -> "INFO"
         [] Head(clean) = "[SUCCESS]" -> "SUCCESS"
         [] Head(clean) = "[WARNING]" -> "WARNING"
         [] Head(clean) = "[ERROR]" -> "ERROR"
         [] OTHER -> NONE

\* The keys of TAG_COLORS.
TagColors == {"STEP", "INFO", "SUCCESS", "WARNING", "ERROR", "CMD", "SCRIPT"}

\* A tagging that forgets the caller's level, for comparison.
TagToApplyNoLevel(text, log_level) ==
  IF LeadingTag(CleanText(text)) # NONE THEN LeadingTag(CleanText(text)) ELSE "CMD"

\* The tag _append_text_to_gui applies to a line logged at log_level.
TagToApply(text, log_level) ==
  LET match == LeadingTag(CleanText(text))
      effective_tag == IF match # NONE THEN match ELSE log_level
  IN IF effective_tag \in TagColors THEN effective_tag ELSE "CMD"

\* A history that records every entry twice, for comparison.
AppendToHistoryTwice(history, entry) == Append(Append(history, entry.text), entry.text)

\* _append_text_to_gui: full_log always grows, the display only by a nonblank line.
AppendToHistory(history, entry) == Append(history, entry.text)
AppendToBox(box, entry) ==
  IF CleanText(entry.text) = <<>> THEN box
  ELSE Append(box, [text |-> CleanText(entry.text) \o <<"\n">>,
                    tag |-> TagToApply(entry.text, entry.log_level)])

\* What a drain of the entries q, oldest first, makes of the history and the display.
RECURSIVE HistoryAfter(_, _)
HistoryAfter(history, q) ==
  IF q = <<>> THEN history ELSE HistoryAfter(AppendToHistory(history, Head(q)), Tail(q))
RECURSIVE BoxAfter(_, _)
BoxAfter(box, q) ==
  IF q = <<>> THEN box ELSE BoxAfter(AppendToBox(box, Head(q)), Tail(q))

\* _process_log_queue: one pass that no push interrupts empties the queue.
ProcessLogQueue ==
  /\ log_queue # <<>>
  /\ full_log' = HistoryAfter(full_log, log_queue)
  /\ output_box' = BoxAfter(output_box, log_queue)
  /\ log_queue' = <<>>
  /\ UNCHANGED <<phase, fsvars, flagvars, current_action, flag_writer, ui, runs, updvars,
                 after_queue, badges, timers, rejects, lim, action_buttons, dialogs,
                 passes, viewvars>>

\* _process_log_queue, one pass of its loop: get_nowait() and _append_text_to_gui
\* for the oldest entry (a worker may push between two passes of the loop).
DrainOne ==
  /\ log_queue # <<>>
  /\ full_log' = AppendToHistory(full_log, Head(log_queue))
  /\ output_box' = AppendToBox(output_box, Head(log_queue))
  /\ log_queue' = Tail(log_queue)
  /\ UNCHANGED <<phase, fsvars, flagvars, current_action, flag_writer, ui, runs, updvars,
                 after_queue, badges, timers, rejects, lim, action_buttons, dialogs,
                 passes, viewvars>>

\* clear_log (the Clear button, on the UI thread while no dialog is open): returns
\* at once while an action holds the flag.
clear_log ==
  /\ phase = "main"
  /\ ui.pc = "idle"
  /\ IF current_action # NONE THEN UNCHANGED <<full_log, output_box, badges>>
     ELSE /\ full_log' = <<>>
          /\ output_box' = <<>>
          /\ badges' = ZeroBadges
  /\ UNCHANGED <<phase, fsvars, flagvars, current_action, flag_writer, ui, runs, updvars,
                 after_queue, log_queue, timers, rejects, lim, action_buttons, dialogs,
                 passes, viewvars>>

\* str.lower() on the tokens a query is compared with; the other tokens hold no
\* capital a query of Queries could meet.
Lower(tok) == CASE tok = "[STEP]" -> "[step]"
                [] tok = "[INFO]" -> "[info]"
                [] tok = "[SUCCESS]" -> "[success]"
                [] tok = "[WARNING]" -> "[warning]"
                [] tok = "[ERROR]" -> "[error]"
                [] OTHER -> tok
LowerLine(line) == [k \in 1..Len(line) |-> Lower(line[k])]

\* `query in line.lower()`: query is a run of consecutive tokens of the lowered line.
QueryIn(query, line) ==
  \E k \in 0..(Len(line) - Len(query)) :
    SubSeq(LowerLine(line), k + 1, k + Len(query)) = query

\* The display filter_log rebuilds from the history: the matching nonblank lines,
\* cleaned, tagged by their leading tag or CMD.
RECURSIVE FilteredBox(_, _)
FilteredBox(history, query) ==
  IF history = <<>> THEN <<>>
  ELSE LET line == Head(history)
           clean_line == CleanText(line)
           rest == FilteredBox(Tail(history), query)
       IN IF QueryIn(query, line) /\ clean_line # <<>>
          THEN <<[text |-> clean_line \o <<"\n">>,
                  tag |-> IF LeadingTag(clean_line) # NONE THEN LeadingTag(clean_line)
                          ELSE "CMD"]>> \o rest
          ELSE rest

\* filter_log, bound to <KeyRelease> of the search entry: the entry then holds
\* typed (lowered here as filter_log lowers it).
filter_log(typed) ==
  /\ phase = "main"
  /\ ui.pc = "idle"
  /\ search_var' = typed
  /\ output_box' = FilteredBox(full_log, typed)
  /\ UNCHANGED <<phase, fsvars, flagvars, current_action, flag_writer, ui, runs, updvars,
                 after_queue, log_queue, full_log, badges, timers, rejects, lim,
                 action_buttons, dialogs, passes, exported, controls>>

\* self.output_box.get("1.0", "end"): the displayed lines and the newline that
\* ends a Tk text widget.
RECURSIVE BoxText(_)
BoxText(box) == IF box = <<>> THEN <<"\n">> ELSE Head(box).text \o BoxText(Tail(box))

\* f"[ERROR] Failed to export log: {e}"
ExportErrText == <<"[ERROR]", " Failed to export log">>
\* The failed exports whose line is still in the history or the queue.
ExportErrors == Cardinality({k \in 1..Len(Pushed) : Pushed[k] = ExportErrText})

\* export_log (the Export button): returns at once while an action holds the
\* flag. chosen: "cancel" (no path), "ok", "PermissionError" (open raises).
export_log(chosen) ==
  /\ phase = "main"
  /\ ui.pc = "idle"
  /\ IF current_action # NONE \/ chosen = "cancel"
     THEN UNCHANGED <<exported, log_queue>>
     ELSE IF chosen = "ok"
     THEN /\ exported' = [written |-> TRUE, text |-> BoxText(output_box)]
          /\ UNCHANGED log_queue
     ELSE /\ ExportErrors < MaxExportErrors
          /\ log_queue' = Log(log_queue, ExportErrText, "ERROR")
          /\ UNCHANGED exported
  /\ UNCHANGED <<phase, fsvars, flagvars, current_action, flag_writer, ui, runs, updvars,
                 after_queue, full_log, output_box, badges, timers, rejects, lim,
                 action_buttons, dialogs, passes, search_var, controls>>

\* ------------------------------------------------------------- update check
\* check_for_updates_threaded: returns at once if an update check holds the flag.
UpdateAlreadyRunning == current_action = UPDATE

CheckForUpdatesThreaded ==
  IF UpdateAlreadyRunning
  THEN UNCHANGED <<current_action, flag_writer, upd_threads, upd_started>>
  ELSE /\ upd_started < lim.updates
       /\ current_action' = UPDATE
       /\ flag_writer' = "ui"
       /\ upd_threads' = upd_threads + 1
       /\ upd_started' = upd_started + 1

\* Settings > "Check for Updates...": a menu command, not available under a dialog.
MenuCheckForUpdates ==
  /\ phase = "main"
  /\ ui.pc = "idle"
  /\ CheckForUpdatesThreaded
  /\ UNCHANGED <<phase, fsvars, flagvars, ui, runs, startup_timer, after_queue, logvars,
                 badges, timers, rejects, lim, action_buttons, dialogs, passes, viewvars>>

\* after(3000, self.check_for_updates_threaded), scheduled by __init__ when the
\* setting is on; any running event loop fires it.
StartupTimerFires ==
  /\ phase = "main"
  /\ startup_timer
  /\ startup_timer' = FALSE
  /\ CheckForUpdatesThreaded
  /\ UNCHANGED <<phase, fsvars, flagvars, ui, runs, after_queue, logvars, badges, timers,
                 rejects, lim, action_buttons, dialogs, passes, viewvars>>

\* check_for_updates returns on its thread: the finally clause.
CheckForUpdatesFinally ==
  /\ upd_threads > 0
  /\ upd_threads' = upd_threads - 1
  /\ current_action' = NONE
  /\ flag_writer' = "worker"
  /\ UNCHANGED <<phase, fsvars, flagvars, ui, runs, upd_started, startup_timer, after_queue,
                 logvars, badges, timers, rejects, lim, action_buttons, dialogs, passes,
                 viewvars>>

\* ------------------------------------------------------------- environment
\* Another process removes the script, clears its executable bit or rewrites it.
EnvRemoveScript ==
  /\ phase = "main" /\ fs_exists
  /\ fs_exists' = FALSE /\ fs_exec' = FALSE
  /\ UNCHANGED <<phase, fs_hash, cks_file, flagvars, current_action, flag_writer, ui, runs,
                 updvars, after_queue, logvars, badges, timers, rejects, lim,
                 action_buttons, dialogs, passes, viewvars>>

EnvClearExecBit ==
  /\ phase = "main" /\ fs_exec
  /\ fs_exec' = FALSE
  /\ UNCHANGED <<phase, fs_exists, fs_hash, cks_file, flagvars, current_action, flag_writer,
                 ui, runs, updvars, after_queue, logvars, badges, timers, rejects, lim,
                 action_buttons, dialogs, passes, viewvars>>

EnvRewriteScript ==
  /\ phase = "main" /\ fs_exists /\ fs_hash = "h1"
  /\ fs_hash' = "h2"
  /\ UNCHANGED <<phase, fs_exists, fs_exec, cks_file, flagvars, current_action, flag_writer,
                 ui, runs, updvars, after_queue, logvars, badges, timers, rejects, lim,
                 action_buttons, dialogs, passes, viewvars>>

\* The application is closed and launched again: __main__ constructs a new
\* CrossOverApp; the files on disk stay as they are.
Relaunch ==
  /\ phase = "main"
  /\ Len(passes) < MaxLaunches
  /\ phase' = "init"
  /\ script_found' = FALSE
  /\ script_executable' = FALSE
  /\ checksum_valid' = NONE
  /\ current_action' = NONE
  /\ flag_writer' = "ui"
  /\ ui' = [pc |-> "idle", action |-> NONE]
  /\ action_buttons' = "normal"
  /\ dialogs' = NoDialogs
  /\ runs' = <<>>
  /\ upd_threads' = 0
  /\ upd_started' = 0
  /\ after_queue' = <<>>
  /\ log_queue' = <<>>
  /\ full_log' = <<>>
  /\ output_box' = <<>>
  /\ badges' = ZeroBadges
  /\ timers' = <<>>
  /\ search_var' = <<>>
  /\ controls' = NormalControls
  /\ UNCHANGED <<fsvars, startup_timer, rejects, lim, passes, exported>>

\* ------------------------------------------------------------ specifications
\* The startup checks on a file system that does not fail; the user denies or
\* grants what verify_checksum asks.
Startup ==
  \E consent \in BOOLEAN : CheckScriptStatus("ok", "ok", TRUE, consent, "ok")

Trigger == \E a \in lim.keys : run_bash_script(a)

Answer == \E yes \in BOOLEAN : AnswerProceed(yes)

\* One step of the worker thread of run i: task(), with what the subprocess does.
WorkerStep(i) ==
  /\ i \in 1..Len(runs)
  /\ \/ TaskBegin(i)
     \/ \E outcome \in {"ok", "FileNotFoundError", "Exception"} : TaskPopen(i, outcome)
     \/ \E line \in lim.alphabet : TaskReadLine(i, line)
     \/ TaskStreamFail(i)
     \/ \E rc \in ExitCodes : TaskExit(i, rc)

Worker == \E i \in 1..Len(runs) : WorkerStep(i)

Next ==
  \/ Startup
  \/ Trigger
  \/ Answer
  \/ Worker
  \/ RunAfter
  \/ BadgeTimerFires
  \/ ProcessLogQueue
  \/ MenuCheckForUpdates
  \/ StartupTimerFires
  \/ CheckForUpdatesFinally

Spec == Init /\ [][Next]_vars

\* Two invocations: a script whose record mismatches, two action keys, one line.
InitRace ==
  InitState(Limits(RaceRuns, RaceRejects, RaceUpdates, RaceLines,
                   {<<"[ERROR]", " boom", "\n">>}, {"execute", "install"}),
            {ExecutableScript}, {FileOf(<<"h2">>)})

SpecRace == InitRace /\ [][Next]_vars

\* Spec with what the code's scheduling guarantees: every started thread runs
\* on (its subprocess ends: it prints at most lim.lines lines), and the Tk event
\* loop runs every scheduled callback.
FairSpec ==
  /\ Spec
  /\ \A i \in 1..MaxRuns : WF_vars(WorkerStep(i))
  /\ WF_vars(RunAfter)

\* One invocation of a verified script that prints up to CountLines lines; no update
\* check is started.
InitCount ==
  /\ InitState(Limits(1, 0, 0, CountLines, ScriptLines, {"execute"}),
               {ExecutableScript}, {FileOf(<<"h1">>)})
  /\ ~startup_timer

NextCount ==
  \/ Startup
  \/ Trigger
  \/ Worker
  \/ RunAfter
  \/ BadgeTimerFires
  \/ ProcessLogQueue

SpecCount == InitCount /\ [][NextCount]_vars

\* The lines the subprocess prints under SpecLog: coloured, blank, plain.
LogAlphabet == { <<"ESC[31m", "[ERROR]", " red", "ESC[0m", "\n">>,
                 <<"\n">>,
                 <<"[STEP]", " start", " ", "\n">> }

\* One invocation whose log is drained entry by entry while the worker pushes, and
\* the Clear button; no update check is started.
InitLog ==
  /\ InitState(Limits(1, 0, 0, LogLines, LogAlphabet, {"execute"}),
               {ExecutableScript}, {FileOf(<<"h1">>)})
  /\ ~startup_timer

NextLog ==
  \/ Startup
  \/ Trigger
  \/ Worker
  \/ RunAfter
  \/ BadgeTimerFires
  \/ ProcessLogQueue
  \/ DrainOne
  \/ clear_log

SpecLog == InitLog /\ [][NextLog]_vars

\* The same action invoked again after it has finished: no call is made while
\* one runs and no update check is started; the script prints a [SUCCESS] line.
InitBadge ==
  /\ InitState(Limits(BadgeRuns, 0, 0, BadgeLines, {<<"[SUCCESS]", " done", "\n">>},
                      {"execute"}),
               {ExecutableScript}, {FileOf(<<"h1">>)})
  /\ ~startup_timer

SpecBadge == InitBadge /\ [][NextCount]_vars

\* The lines the subprocess prints under SpecFrame.
FrameAlphabet == { <<"[ERROR]", " failed", "\n">> }

\* Two invocations, of any of two actions, one after the other, with the Clear
\* button: no call is made while one runs and no update check is started.
InitFrame ==
  /\ InitState(Limits(BadgeRuns, 0, 0, BadgeLines, FrameAlphabet, {"execute", "install"}),
               {ExecutableScript}, {FileOf(<<"h1">>)})
  /\ ~startup_timer

NextFrame ==
  \/ Startup
  \/ Trigger
  \/ Worker
  \/ RunAfter
  \/ BadgeTimerFires
  \/ ProcessLogQueue
  \/ clear_log

SpecFrame == InitFrame /\ [][NextFrame]_vars

\* The startup checks of a script that lacks its executable bit, with every
\* outcome of chmod, then calls of run_bash_script.
StartupChmod ==
  \E chmod \in {"ok", "noeffect", "error"}, consent \in BOOLEAN :
    CheckScriptStatus(chmod, "ok", TRUE, consent, "ok")

InitChmod ==
  /\ InitState(Limits(1, 1, 0, 1, {<<"[SUCCESS]", " done", "\n">>}, {"execute"}),
               {PlainScript}, {FileOf(<<"h1">>)})
  /\ ~startup_timer

NextChmod ==
  \/ StartupChmod
  \/ Trigger
  \/ Worker
  \/ RunAfter
  \/ BadgeTimerFires
  \/ ProcessLogQueue

SpecChmod == InitChmod /\ [][NextChmod]_vars

\* The queries typed in the search entry: none, one that matches the error lines.
Queries == {<<>>, <<"[error]">>}

\* SpecLog with the search entry and the Export button.
NextExport ==
  \/ NextLog
  \/ \E typed \in Queries : filter_log(typed)
  \/ \E chosen \in {"cancel", "ok", "PermissionError"} : export_log(chosen)

SpecExport == InitLog /\ [][NextExport]_vars

\* The startup checks with every outcome of chmod, of hashing the script, of
\* reading and writing the record and of the user's answer.
StartupAny ==
  \E chmod \in {"ok", "noeffect", "error"},
     hashing \in {"ok", "FileNotFoundError", "PermissionError"},
     readable \in BOOLEAN, consent \in BOOLEAN,
     writing \in {"ok", "PermissionError", "OSError"} :
    CheckScriptStatus(chmod, hashing, readable, consent, writing)

\* The record files SpecVerify starts with: CksFiles, a padded digest, an empty file.
VerifyFiles == CksFiles \cup {FileOf(<<" ", "h1", "\n">>), FileOf(<<>>)}

\* The startup checks alone, launch after launch; no action is triggered.
InitVerify ==
  /\ InitState(Limits(0, 0, 0, 0, {}, {}),
               {MissingScript, PlainScript, ExecutableScript}, VerifyFiles)
  /\ ~startup_timer

NextVerify ==
  \/ StartupAny
  \/ Relaunch
  \/ ProcessLogQueue

SpecVerify == InitVerify /\ [][NextVerify]_vars

\* An executable script with a record at startup; other processes then change the script.
InitEnv ==
  InitState(Limits(MaxRuns, MaxRejects, MaxUpdates, MaxLines, ScriptLines, ActionKeys),
            {ExecutableScript}, {FileOf(<<"h1">>), FileOf(<<"h2">>)})

NextEnv ==
  \/ Next
  \/ EnvRemoveScript
  \/ EnvClearExecBit
  \/ EnvRewriteScript

SpecEnv == InitEnv /\ [][NextEnv]_vars

\* ------------------------------------------------------------------ claims
\* The worker thread of run i has been started and has not yet left task().
WorkerAlive(i) == runs[i].pc \in {"begin", "popen", "stream"}
AliveWorkers == {i \in 1..Len(runs) : WorkerAlive(i)}

\* C1: in every reachable state at most one script worker thread is in flight.
C1_AtMostOneWorker == Cardinality(AliveWorkers) <= 1

\* C2: a run_bash_script call made while current_action is set changes nothing of
\* the program's state: no worker, no log line, no badge reset, no dialog, the flag
\* unchanged, nothing queued.
C2_BusyTriggerNoOp ==
  [][\A a \in ActionKeys :
       (current_action # NONE /\ run_bash_script(a)) => UNCHANGED progvars]_vars

\* C2's case: a call was rejected as busy while a worker was streaming.
C2_Witness ==
  /\ rejects.busy = 1
  /\ Len(runs) = 1 /\ runs[1].pc = "stream" /\ current_action = runs[1].action

\* Every run started while the trust state was untrusted was confirmed by the user.
UntrustedRunsConfirmed ==
  \A i \in 1..Len(runs) : runs[i].trust = "False" => runs[i].consent = "granted"

\* The step in which the user answers "no" to "Proceed anyway?".
RefusalStep == ui.pc = "ask" /\ ui'.pc = "idle" /\ Len(runs') = Len(runs)

\* C3: with the trust state untrusted no worker (hence no subprocess) is started
\* unless the user confirmed that very call; a refusal leaves current_action, the
\* runs and the badges as they were, schedules nothing and pushes exactly one
\* line, a WARNING.
C3_UntrustedNeedsConsent ==
  [][ /\ UntrustedRunsConfirmed'
      /\ RefusalStep =>
           /\ current_action' = current_action
           /\ runs' = runs
           /\ badges' = badges
           /\ after_queue' = after_queue
           /\ full_log' = full_log
           /\ log_queue' = Append(log_queue, Entry(CancelledText, "WARNING"))
           /\ Head(CancelledText) = "[WARNING]" ]_vars

\* C3's case: one call was refused, a later one confirmed and its subprocess spawned.
C3_Witness ==
  /\ rejects.refused = 1
  /\ \E i \in 1..Len(runs) :
       runs[i].trust = "False" /\ runs[i].consent = "granted" /\ runs[i].spawned

\* C4: a subprocess is spawned for a call made while the record mismatched the
\* script's content only if the user confirmed that call.
C4_IntegrityGatesEveryRun ==
  \A i \in 1..Len(runs) :
    (runs[i].spawned /\ runs[i].mismatch) => runs[i].consent = "granted"

\* C5: no call made while the script was missing or not executable is accepted.
C5_ScriptCheckedEveryRun ==
  \A i \in 1..Len(runs) : runs[i].on_disk

\* The step that starts a run for the action current_action becomes.
AcceptStep ==
  /\ current_action = NONE
  /\ Len(runs') = Len(runs) + 1
  /\ runs'[Len(runs')].action = current_action'

\* The step that runs the finalization callback of a run of current_action.
FinalizeStep ==
  \E i \in 1..Len(runs) :
    /\ runs[i].action = current_action
    /\ runs[i].pc = "done" /\ runs'[i].pc = "finalized"
    /\ current_action' = NONE

\* An update check taking or releasing a flag no action holds.
UpdateStep ==
  \/ current_action = NONE /\ current_action' = UPDATE
  \/ current_action = UPDATE /\ current_action' = NONE /\ upd_threads' < upd_threads

\* C6: current_action changes only Idle -> Busy(a) on an accepted call and
\* Busy(a) -> Idle at the finalization of a's run.
C6_IdleBusyIdle ==
  [][current_action' # current_action => (AcceptStep \/ FinalizeStep \/ UpdateStep)]_vars

\* C7: only the UI thread assigns current_action.
C7_OnlyUiWritesFlag == flag_writer = "ui"

\* C8: every run started and not yet finalized reaches its finalization, which
\* leaves the coordinator Idle
\* (the worker threads run on, the event loop runs every scheduled callback).
C8_EveryRunFinalized ==
  \A i \in 1..MaxRuns :
    (Len(runs) >= i /\ runs[i].pc # "finalized")
      ~> (Len(runs) >= i /\ runs[i].pc = "finalized" /\ current_action = NONE)

\* C8's case: a run whose launch failed has been finalized and the coordinator is Idle.
C8_Witness ==
  \E i \in 1..Len(runs) :
    /\ runs[i].pc = "finalized" /\ runs[i].return_code = -1 /\ ~runs[i].spawned
    /\ current_action = NONE

\* The runs whose finalization callback has run.
Finalized == {i \in 1..Len(runs) : runs[i].pc = "finalized"}

\* C9: a run has shown no terminal dialog before its finalization and exactly one
\* after it, the success dialog if and only if its exit code is 0; the coordinator
\* has shown no other terminal dialog (none for a rejected call).
C9_OneTerminalNotification ==
  /\ dialogs["done"] = Cardinality({i \in Finalized : runs[i].return_code = 0})
  /\ dialogs["error_occurred"] = Cardinality({i \in Finalized : runs[i].return_code # 0})
  /\ \A i \in 1..Len(runs) :
       IF runs[i].pc = "finalized"
       THEN /\ Len(runs[i].notified) = 1
            /\ (runs[i].notified[1] = "showinfo") <=> (runs[i].return_code = 0)
            /\ (runs[i].notified[1] = "showerror") <=> (runs[i].return_code # 0)
       ELSE runs[i].notified = <<>>

\* C9's case: a run that exited 137 was finalized, and a call was refused.
C9_Witness ==
  /\ rejects.refused = 1
  /\ \E i \in 1..Len(runs) :
       runs[i].pc = "finalized" /\ runs[i].return_code = 137
         /\ runs[i].notified = <<"showerror">>

\* The markers and the lines the workers push.
IsStart(t) == \E a \in ActionKeys : t = StartText(a)
IsEnd(t) == \E a \in ActionKeys, rc \in ExitCodes \cup {-1} : t = EndText(a, rc)
IsWorkerLine(t) ==
  \/ t \in ScriptLines
  \/ t \in {NotFoundText, UnexpectedText}
  \/ \E a \in ActionKeys : t = CmdText(a)
  \/ \E rc \in ExitCodes : t \in {SummaryOkText(rc), SummaryErrText(rc)}

\* The markers of Pushed, in order.
Markers == SelectSeq(Pushed, LAMBDA t : IsStart(t) \/ IsEnd(t))

\* The last marker pushed before position p is a START.
InsideBracket(p) ==
  LET before == SelectSeq(SubSeq(Pushed, 1, p - 1), LAMBDA t : IsStart(t) \/ IsEnd(t))
  IN before # <<>> /\ IsStart(before[Len(before)])

\* C10: START and END markers alternate (no invocation's markers inside another's),
\* every line a worker pushes lies between a START and the next END, there is one
\* START per started worker and one END per ended worker, and a lone run's END
\* carries its exit code.
C10_MarkersBracketRuns ==
  /\ \A k \in 1..Len(Markers) : IsStart(Markers[k]) <=> (k % 2 = 1)
  /\ \A p \in 1..Len(Pushed) : IsWorkerLine(Pushed[p]) => InsideBracket(p)
  /\ Len(SelectSeq(Pushed, IsStart)) = Cardinality({i \in 1..Len(runs) : runs[i].pc # "begin"})
  /\ Len(SelectSeq(Pushed, IsEnd))
       = Cardinality({i \in 1..Len(runs) : runs[i].pc \in {"done", "finalized"}})
  /\ \A i \in 1..Len(runs) :
       runs[i].pc \in {"done", "finalized"} =>
         \E p \in 1..Len(Pushed) : Pushed[p] = EndText(runs[i].action, runs[i].return_code)

\* The run whose worker takes this step into an except clause.
Raises(i) == i \in 1..Len(runs) /\ ~runs[i].raised /\ runs'[i].raised

\* C11: when Popen or the read loop raises, the worker pushes one ERROR line and
\* then the END marker with exit code -1, adds one to the error counter and
\* schedules the finalization, which shows the failure dialog; the thread ends
\* through task()'s finally clause.
C11_ExceptionsHandled ==
  [][ /\ \A i \in 1..MaxRuns : Raises(i) =>
           /\ \E text \in {NotFoundText, UnexpectedText} :
                log_queue' = log_queue \o <<Entry(text, "ERROR"),
                                            Entry(EndText(runs[i].action, -1), "STEP")>>
           /\ Head(NotFoundText) = "[ERROR]" /\ Head(UnexpectedText) = "[ERROR]"
           /\ runs'[i].error_count = runs[i].error_count + 1
           /\ runs'[i].return_code = -1
           /\ runs'[i].pc = "done"
           /\ after_queue'[Len(after_queue')] = FinalizeCall(i, runs[i].action, -1)
      /\ \A i \in 1..Len(runs') : (runs'[i].raised /\ runs'[i].pc = "finalized") =>
           /\ runs'[i].notified = <<"showerror">>
           /\ runs'[i].return_code = -1 ]_vars

\* C11's case: the read loop raised after a line was read, and the run was finalized.
C11_Witness ==
  \E i \in 1..Len(runs) :
    /\ runs[i].raised /\ runs[i].spawned /\ runs[i].nread = 1
    /\ runs[i].pc = "finalized"

\* A run_bash_script call made while Idle with the script flagged missing or not
\* executable.
ScriptRejectStep ==
  /\ current_action = NONE /\ ui.pc = "idle"
  /\ ~script_found \/ ~script_executable
  /\ \E a \in ActionKeys : run_bash_script(a)

\* What such a call leaves alone: the coordinator stays Idle, no worker starts, no
\* badge, button or scheduled callback changes, nothing is displayed.
ScriptRejectFrame ==
  UNCHANGED <<current_action, runs, badges, action_buttons, after_queue, timers, full_log,
              ui, flag_writer>>

\* C12 as stated: such a call has one ERROR log line as its only observable
\* effect; no other notification is produced.
C12_RejectOnlyLogs ==
  [][ScriptRejectStep =>
       /\ log_queue' = Append(log_queue, Entry(CannotRunText, "ERROR"))
       /\ ScriptRejectFrame
       /\ dialogs' = dialogs]_vars

\* C12, amended: such a call pushes one ERROR log line and shows one error dialog
\* with the script-status message, and has no other effect.
C12_RejectLogsAndShowsError ==
  [][ScriptRejectStep =>
       /\ log_queue' = Append(log_queue, Entry(CannotRunText, "ERROR"))
       /\ Head(CannotRunText) = "[ERROR]"
       /\ ScriptRejectFrame
       /\ dialogs' = Show(dialogs, IF ~script_found THEN "status_script_not_found"
                                                     ELSE "status_script_not_exec")]_vars

\* C12's case: the script is missing and a call was rejected.
C12_Witness ==
  /\ ~script_found /\ rejects.script = 1
  /\ runs = <<>> /\ current_action = NONE
  /\ dialogs["status_script_not_found"] = 1
  /\ Pushed # <<>> /\ Pushed[Len(Pushed)] = CannotRunText

\* A run_bash_script call made while Idle, the script found and executable and the
\* trust state undetermined.
UndeterminedCall(a) ==
  /\ current_action = NONE /\ ui.pc = "idle"
  /\ script_found /\ script_executable /\ checksum_valid = NONE
  /\ run_bash_script(a)

\* C13: such a call is accepted with no prompt (the coordinator goes Busy with the
\* action, a worker is started, no dialog is shown), and a consent prompt opens
\* only in the untrusted state.
C13_UndeterminedRuns ==
  [][ /\ \A a \in ActionKeys : UndeterminedCall(a) =>
           /\ current_action' = a
           /\ Len(runs') = Len(runs) + 1
           /\ runs'[Len(runs')].action = a
           /\ runs'[Len(runs')].consent = "not_asked"
           /\ runs'[Len(runs')].pc = "begin"
           /\ ui'.pc = "idle"
           /\ dialogs' = dialogs
      /\ (ui.pc = "idle" /\ ui'.pc = "ask") => checksum_valid = "False" ]_vars

\* C13's case: a run started in the undetermined state spawned its subprocess, and
\* so did no prompt.
C13_Witness ==
  /\ checksum_valid = NONE
  /\ dialogs["proceed_anyway"] = 0
  /\ \E i \in 1..Len(runs) :
       runs[i].trust = NONE /\ runs[i].consent = "not_asked" /\ runs[i].spawned

\* The lines of out that the read loop counts for tag: those `tag in line` holds of.
CountOf(out, tag) == Cardinality({j \in 1..Len(out) : Contains(out[j], tag)})
Max(a, b) == IF a >= b THEN a ELSE b

\* The runs whose subprocess closed its output and exited with a code of `codes`.
Exited(codes) ==
  {i \in 1..Len(runs) : /\ runs[i].pc \in {"done", "finalized"}
                        /\ ~runs[i].raised
                        /\ runs[i].return_code \in codes}

\* C14: after exit code 0 the success counter is max(1, k), k the output lines
\* counted as SUCCESS (the summary line adds nothing), and the error counter is
\* the number of output lines counted as ERROR.
C14_SuccessCounterOnExitZero ==
  \A i \in Exited({0}) :
    /\ runs[i].success_count = Max(1, CountOf(runs[i].output, "[SUCCESS]"))
    /\ runs[i].error_count = CountOf(runs[i].output, "[ERROR]")

\* C14's case: "[STEP] start", "[SUCCESS] done", exit 0: success counter 1, error
\* counter 0, one success dialog.
C14_Witness ==
  \E i \in 1..Len(runs) :
    /\ runs[i].output = << <<"[STEP]", " start", "\n">>, <<"[SUCCESS]", " done", "\n">> >>
    /\ runs[i].return_code = 0 /\ runs[i].pc = "finalized"
    /\ runs[i].success_count = 1 /\ runs[i].error_count = 0
    /\ runs[i].notified = <<"showinfo">>

\* C15: after a nonzero exit code the error counter is max(1, k), k the output
\* lines counted as ERROR, the END marker (the last line pushed) reports that exit
\* code, and the success counter is the number of output lines counted as SUCCESS.
C15_ErrorCounterOnNonzeroExit ==
  \A i \in Exited(ExitCodes \ {0}) :
    /\ runs[i].error_count = Max(1, CountOf(runs[i].output, "[ERROR]"))
    /\ runs[i].success_count = CountOf(runs[i].output, "[SUCCESS]")
    /\ Pushed[Len(Pushed)] = EndText(runs[i].action, runs[i].return_code)

\* C15's case: exit 137 with no output: error counter 1, END reports 137, one
\* failure dialog.
C15_Witness ==
  \E i \in 1..Len(runs) :
    /\ runs[i].output = <<>> /\ runs[i].return_code = 137 /\ runs[i].pc = "finalized"
    /\ runs[i].error_count = 1 /\ runs[i].success_count = 0
    /\ runs[i].notified = <<"showerror">>
    /\ Pushed[Len(Pushed)] = EndText(runs[i].action, 137)

\* The lines of out whose display tag is `tag` (a leading bracketed tag).
ClassifiedAs(out, tag) == Cardinality({j \in 1..Len(out) : TagToApply(out[j], "CMD") = tag})

\* C16: while a run streams, its error counter is the number of output lines read
\* so far that are classified ERROR and its success counter the number classified
\* SUCCESS.
C16_CountersMatchClassification ==
  \A i \in 1..Len(runs) :
    runs[i].pc = "stream" =>
      /\ runs[i].error_count = ClassifiedAs(runs[i].output, "ERROR")
      /\ runs[i].success_count = ClassifiedAs(runs[i].output, "SUCCESS")

IsPrefix(a, b) == Len(a) <= Len(b) /\ SubSeq(b, 1, Len(a)) = a

\* A step of the drain: the history grows.
DrainStep == Len(full_log') > Len(full_log)
\* A clear_log call that is not rejected.
ClearStep == current_action = NONE /\ clear_log

\* The display shows the nonblank entries of the history, cleaned, in order, once.
DisplayOf(history) ==
  LET cleaned == [k \in 1..Len(history) |-> CleanText(history[k])]
      shown == SelectSeq(cleaned, LAMBDA t : t # <<>>)
  IN [k \in 1..Len(shown) |-> shown[k] \o <<"\n">>]
DisplayMatches == [k \in 1..Len(output_box) |-> output_box[k].text] = DisplayOf(full_log)

\* What no step but a clear does: the history followed by the queue only grows at
\* its end (nothing lost, nothing reordered), and a drain step moves entries from
\* the queue to the history without changing that sequence (nothing duplicated).
FifoSteps ==
  /\ ~ClearStep => IsPrefix(Pushed, Pushed')
  /\ DrainStep => Pushed' = Pushed
  /\ DisplayMatches'

Compared(p) == p.found /\ p.hashing = "ok" /\ p.stored.exists /\ p.readable
\* The stored hash equals the current one up to surrounding whitespace: the record
\* is the current hash between two runs of whitespace.
Matches(p) ==
  LET c == p.stored.content
      blank(a, b) == \A j \in a..b : IsSpace(c[j])
  IN \E j \in 1..Len(c) : c[j] = p.current /\ blank(1, j - 1) /\ blank(j + 1, Len(c))

\* C18: a pass of verify_checksum leaves the record file exactly as it found it
\* (an absent file stays absent) unless the user was asked and granted consent
\* in that pass; between passes the file is not written either.
C18_RecordWrittenOnlyOnConsent ==
  /\ \A k \in 1..Len(passes) :
       passes[k].after # passes[k].stored => passes[k].answer = "granted"
  /\ \A k \in 1..Len(passes) - 1 : passes[k + 1].stored = passes[k].after
  /\ Len(passes) > 0 => cks_file = passes[Len(passes)].after

\* C18's case: the record was absent; a first pass asked, was denied and left it
\* absent; a second pass asked, was granted and created it.
C18_Witness ==
  /\ Len(passes) = 2
  /\ passes[1].answer = "denied" /\ ~passes[1].stored.exists /\ ~passes[1].after.exists
  /\ passes[2].answer = "granted" /\ passes[2].after = FileOf(<<passes[2].current>>)
  /\ cks_file = passes[2].after

\* C19: a pass that finds a stored hash equal, once trimmed, to the current hash
\* yields True, does not ask and leaves the record as it is.
C19_MatchTrustedSilently ==
  \A k \in 1..Len(passes) :
    Compared(passes[k]) /\ Matches(passes[k]) =>
      /\ passes[k].valid = "True"
      /\ passes[k].answer = "not_asked"
      /\ passes[k].after = passes[k].stored

\* C19's case: the record holds the current hash between a blank and a newline,
\* and the pass is over with the script trusted.
C19_Witness ==
  /\ Len(passes) >= 1
  /\ passes[1].stored = FileOf(<<" ", "h1", "\n">>) /\ passes[1].current = "h1"
  /\ Compared(passes[1])
  /\ checksum_valid = "True" /\ cks_file = passes[1].stored

\* A pass that compared, found a different hash, asked and was denied.
DeniedMismatch(p) == Compared(p) /\ ~Matches(p) /\ p.answer = "denied"

\* C20: a pass that finds a different stored hash and is denied consent yields
\* False and leaves the record unchanged; the next launch's pass, if it reads the
\* record and is not granted consent, asks again, is denied, yields False and
\* finds and leaves the same record.
C20_DeniedMismatchIsStable ==
  /\ \A k \in 1..Len(passes) :
       DeniedMismatch(passes[k]) =>
         passes[k].valid = "False" /\ passes[k].after = passes[k].stored
  /\ \A k \in 1..Len(passes) - 1 :
       /\ DeniedMismatch(passes[k])
       /\ passes[k + 1].hashing = "ok" /\ passes[k + 1].readable
       /\ passes[k + 1].answer # "granted"
       => /\ DeniedMismatch(passes[k + 1])
          /\ passes[k + 1].valid = passes[k].valid
          /\ passes[k + 1].stored = passes[k].stored
          /\ passes[k + 1].after = passes[k].stored

\* C20's case: two launches in a row met the stale record h2 for the script h1
\* and were denied both times.
C20_Witness ==
  /\ Len(passes) = 2
  /\ DeniedMismatch(passes[1]) /\ DeniedMismatch(passes[2])
  /\ passes[1].stored = FileOf(<<"h2">>) /\ passes[1].current = "h1"
  /\ checksum_valid = "False" /\ cks_file = FileOf(<<"h2">>)

\* A pass that compared, found a different hash, asked and was granted consent.
GrantedMismatch(p) == Compared(p) /\ ~Matches(p) /\ p.answer = "granted"

\* C21: a pass that finds a different stored hash, is granted consent and whose
\* write succeeds leaves a record that is exactly the current hash and yields True.
C21_GrantedMismatchRepairs ==
  \A k \in 1..Len(passes) :
    GrantedMismatch(passes[k]) /\ passes[k].writing = "ok" =>
      /\ passes[k].after = FileOf(<<passes[k].current>>)
      /\ passes[k].valid = "True"

\* C21's case: the stale record h2 was replaced by h1 on consent and the script
\* is trusted.
C21_Witness ==
  /\ Len(passes) = 1
  /\ GrantedMismatch(passes[1]) /\ passes[1].writing = "ok"
  /\ passes[1].stored = FileOf(<<"h2">>) /\ passes[1].current = "h1"
  /\ cks_file = FileOf(<<"h1">>) /\ checksum_valid = "True"

\* The entries of logs that the display classifies as ERROR.
ErrorLines(logs) == {j \in 1..Len(logs) : TagToApply(logs[j].text, logs[j].log_level) = "ERROR"}

\* C22: a pass that finds a different stored hash, is granted consent and whose
\* write fails yields False, leaves the record with its old value, pushes at
\* least one line classified ERROR and lets no exception out.
C22_FailedWriteKeepsRecord ==
  \A k \in 1..Len(passes) :
    GrantedMismatch(passes[k]) /\ passes[k].writing # "ok" =>
      /\ passes[k].valid = "False"
      /\ passes[k].after = passes[k].stored
      /\ ErrorLines(passes[k].logs) # {}
      /\ ~passes[k].raised

\* A pass that hashed the script, found no record, asked and was granted consent.
GrantedMissing(p) == p.found /\ p.hashing = "ok" /\ ~p.stored.exists /\ p.answer = "granted"

\* After pass k created the record, the pass of the next launch, which hashes the
\* unchanged script and reads the record, yields True without asking or writing.
ThenTrusted(k) ==
  k < Len(passes) /\ passes[k + 1].hashing = "ok" /\ passes[k + 1].readable =>
    /\ passes[k + 1].valid = "True"
    /\ passes[k + 1].answer = "not_asked"
    /\ passes[k + 1].after = passes[k + 1].stored

\* C23 as stated: a pass that finds no record and is granted consent creates the
\* record with exactly the current hash and yields True, and the next pass on
\* the unchanged script yields True without asking and without writing.
C23_GrantedMissingCreates ==
  \A k \in 1..Len(passes) :
    GrantedMissing(passes[k]) =>
      /\ passes[k].after = FileOf(<<passes[k].current>>)
      /\ passes[k].valid = "True"
      /\ ThenTrusted(k)

\* C23, amended: the same when the write of the record succeeds.
C23_GrantedMissingCreatesIfWritten ==
  \A k \in 1..Len(passes) :
    GrantedMissing(passes[k]) /\ passes[k].writing = "ok" =>
      /\ passes[k].after = FileOf(<<passes[k].current>>)
      /\ passes[k].valid = "True"
      /\ ThenTrusted(k)

\* C23's case: the first launch created the record on consent, the second one
\* found it and trusted the script without asking.
C23_Witness ==
  /\ Len(passes) = 2
  /\ GrantedMissing(passes[1]) /\ passes[1].writing = "ok"
  /\ passes[2].stored = FileOf(<<"h1">>) /\ passes[2].answer = "not_asked"
  /\ checksum_valid = "True" /\ cks_file = FileOf(<<"h1">>)

\* A pass that hashed the script, found no record, asked and was denied.
DeniedMissing(p) == p.found /\ p.hashing = "ok" /\ ~p.stored.exists /\ p.answer = "denied"

\* C24: a pass that finds no record and is denied consent yields None (not
\* False) and creates no record file.
C24_DeniedMissingUndetermined ==
  \A k \in 1..Len(passes) :
    DeniedMissing(passes[k]) =>
      /\ passes[k].valid = NONE
      /\ ~passes[k].after.exists

\* C24's case: the pass is over, the user said no, there is still no record and
\* the trust state is None.
C24_Witness ==
  /\ Len(passes) = 1
  /\ DeniedMissing(passes[1])
  /\ phase = "main" /\ checksum_valid = NONE /\ ~cks_file.exists

\* C25: a pass in which reading the script for hashing fails yields None, pushes
\* at least one line classified ERROR, asks nothing, leaves the record file as
\* it was and lets no exception out.
C25_HashingFailureUndetermined ==
  \A k \in 1..Len(passes) :
    passes[k].found /\ passes[k].hashing # "ok" =>
      /\ passes[k].valid = NONE
      /\ ErrorLines(passes[k].logs) # {}
      /\ passes[k].answer = "not_asked"
      /\ passes[k].after = passes[k].stored
      /\ ~passes[k].raised

\* C25's case: the script could not be opened for hashing (permission denied)
\* although a stale record was there; the startup checks went on to the main
\* loop with the error line queued.
C25_Witness ==
  /\ Len(passes) = 1
  /\ passes[1].found /\ passes[1].hashing = "PermissionError"
  /\ passes[1].stored = FileOf(<<"h2">>)
  /\ phase = "main" /\ checksum_valid = NONE /\ cks_file = FileOf(<<"h2">>)
  /\ \E j \in 1..Len(log_queue) :
       log_queue[j].text = <<"[ERROR]", " Error during checksum verification/handling">>

\* C30: when the script does not exist the verification is skipped: the trust
\* state is None, nothing is asked, the record file is left as it is, and
\* whatever hashing the script or reading the record would have done, no line
\* about it is logged.
C30_MissingScriptSkipsVerification ==
  \A k \in 1..Len(passes) :
    ~passes[k].found =>
      /\ passes[k].valid = NONE
      /\ passes[k].answer = "not_asked"
      /\ passes[k].after = passes[k].stored
      /\ passes[k].logs = <<>>
      /\ ~passes[k].raised

\* C30's case: no script, a record h2 that could not be read, a hashing that
\* would fail; the startup checks only logged that the script is missing.
C30_Witness ==
  /\ Len(passes) = 1
  /\ ~passes[1].found /\ passes[1].hashing = "PermissionError" /\ ~passes[1].readable
  /\ phase = "main" /\ ~script_found /\ checksum_valid = NONE
  /\ cks_file = FileOf(<<"h2">>)
  /\ log_queue = <<Entry(<<"[ERROR]", " ERROR: script.sh script not found!">>, "ERROR")>>

\* '\n'.join(history)
RECURSIVE Join(_)
Join(history) ==
  IF history = <<>> THEN <<>>
  ELSE IF Len(history) = 1 THEN Head(history)
  ELSE Head(history) \o <<"\n">> \o Join(Tail(history))

\* An export_log call that writes the file.
ExportStep == current_action = NONE /\ export_log("ok")

\* C26: the file export_log writes is the history, every entry verbatim, joined
\* by newlines (up to whitespace at the end of the file), whatever the query in
\* the search entry and whatever the display shows.
C26_ExportIsHistory ==
  [][ExportStep => RStrip(exported'.text) = RStrip(Join(full_log))]_vars

\* The five tags a line can carry in front.
LineTags == {"STEP", "INFO", "SUCCESS", "WARNING", "ERROR"}
\* The token [T] of tag T.
Bracketed(T) == CASE T = "STEP" -> "[STEP]"
                  [] T = "INFO" -> "[INFO]"
                  [] T = "SUCCESS" -> "[SUCCESS]"
                  [] T = "WARNING" -> "[WARNING]"
                  [] OTHER -> "[ERROR]"
\* The tag the rule gives the entry when it looks at line: T if line starts with
\* [T], else the level the caller of _log supplied.
TagByRule(line, entry) ==
  IF \E T \in LineTags : line # <<>> /\ Head(line) = Bracketed(T)
  THEN CHOOSE T \in LineTags : Head(line) = Bracketed(T)
  ELSE entry.log_level

\* A step that consumes the oldest queued entry and displays it.
ConsumeStep ==
  /\ log_queue # <<>> /\ log_queue' = Tail(log_queue)
  /\ full_log' = Append(full_log, Head(log_queue).text)
  /\ Len(output_box') = Len(output_box) + 1
\* the tag the display gave the line just consumed
NewTag == output_box'[Len(output_box')].tag

\* C27 as stated: a consumed line that is displayed is tagged T exactly if the
\* line as pushed starts with [T], and otherwise keeps its caller's level.
C27_TagFromLineAsPushed ==
  [][ConsumeStep => NewTag = TagByRule(Head(log_queue).text, Head(log_queue))]_vars

\* C27, amended: the same for the line as pushed with its ANSI escape sequences
\* removed.
C27_TagFromLineWithoutAnsi ==
  [][ConsumeStep => NewTag = TagByRule(StripAnsi(Head(log_queue).text), Head(log_queue))]_vars

\* C27's case: the coloured line whose first token is an escape sequence was
\* consumed and displayed as ERROR, and the START marker, which carries no tag
\* in front, is displayed with its caller's level STEP.
C27_Witness ==
  /\ \E k \in 1..Len(full_log) : Head(full_log[k]) = "ESC[31m"
  /\ \E k \in 1..Len(output_box) :
       output_box[k] = [text |-> <<"[ERROR]", " red", "\n">>, tag |-> "ERROR"]
  /\ \E k \in 1..Len(output_box) :
       /\ output_box[k].text = CleanText(StartText("execute")) \o <<"\n">>
       /\ output_box[k].tag = "STEP"

\* Invocation i is between its badge reset and its finalization, before and
\* after the step, and no other invocation is.
Running(i) ==
  /\ i = Len(runs) /\ Len(runs') = Len(runs)
  /\ runs[i].pc # "finalized" /\ runs'[i].pc # "finalized"
  /\ \A j \in 1..(i - 1) : runs[j].pc = "finalized"

\* The displayed badges of i's action are values i's counters have had.
BadgesFromRun(i) ==
  /\ badges[runs[i].action].success \in 0..runs[i].success_count
  /\ badges[runs[i].action].error \in 0..runs[i].error_count

\* C28: while an invocation runs, the displayed badges of its action never
\* decrease and show values its counters have had, also when the success-badge
\* reset timer of an earlier invocation of the action is still pending.
C28_BadgesMonotonicPerRun ==
  [][\A i \in 1..Len(runs) :
       Running(i) =>
         /\ badges'[runs[i].action].success >= badges[runs[i].action].success
         /\ badges'[runs[i].action].error >= badges[runs[i].action].error
         /\ BadgesFromRun(i)']_vars

\* The startup checks found the script, not executable, and could not fix it.
ChmodFailedStep ==
  phase = "init" /\ phase' = "main" /\ script_found' /\ ~script_executable'
\* The entries the step pushed.
NewEntries == SubSeq(log_queue', Len(log_queue) + 1, Len(log_queue'))
\* A call of run_bash_script while no action runs, after such a startup.
TriggerAfterChmodFailed ==
  /\ phase = "main" /\ current_action = NONE /\ ui.pc = "idle"
  /\ script_found /\ ~script_executable
  /\ \E a \in ActionKeys : run_bash_script(a)

OthersDisabled ==
  action_buttons = "disabled" /\ controls.other = "disabled"
    /\ controls.search_entry = "disabled"
\* Every control is enabled.
AllEnabled == action_buttons = "normal" /\ controls = NormalControls

\* C31: while an action is in flight every control is disabled but clear and
\* help, which stay enabled, and a clear_log call then still empties the log;
\* when the coordinator returns to Idle every control is enabled again.
C31_BusyLeavesClearAndHelpUsable ==
  [][/\ current_action' # NONE =>
          OthersDisabled' /\ controls'.clear = "normal" /\ controls'.help = "normal"
     /\ current_action # NONE /\ phase = "main" /\ ui.pc = "idle" /\ full_log # <<>> =>
          ENABLED (clear_log /\ full_log' = <<>>)
     /\ current_action # NONE /\ current_action' = NONE => AllEnabled']_vars

\* filter_log re-renders the display while the search entry is and stays empty:
\* every nonblank entry of the history is displayed before and after.
RerenderStep == search_var = <<>> /\ filter_log(<<>>)

\* C32: an entry is rendered with the same tag whenever it is rendered: a
\* re-render by filter_log gives every displayed entry the tag it got when
\* _append_text_to_gui appended it, also an entry without a bracketed prefix
\* that was pushed with a level other than CMD.
C32_RerenderKeepsTags ==
  [][RerenderStep =>
       /\ Len(output_box') = Len(output_box)
       /\ \A k \in 1..Len(output_box) : output_box'[k].tag = output_box[k].tag]_vars

\* The lines a display filtered by query shows of history: its entries that
\* contain the query and are not blank once cleaned, in order.
ShownUnder(history, query) ==
  LET kept == SelectSeq(history, LAMBDA h : QueryIn(query, h) /\ CleanText(h) # <<>>)
  IN [k \in 1..Len(kept) |-> CleanText(kept[k]) \o <<"\n">>]

\* C35: the display shows exactly the nonblank entries of the history that
\* contain the query of the search entry, in history order. (Only steps of the
\* UI thread change the display, the history or the query.)
C35_DisplayIsFilteredHistory ==
  [k \in 1..Len(output_box) |-> output_box[k].text] = ShownUnder(full_log, search_var)

\* The step in which _finalize_script_run runs for invocation i: the coordinator
\* returns to Idle and the terminal notification is shown.
Finalizes(i) == i \in 1..Len(runs) /\ runs[i].pc = "done" /\ runs'[i].pc = "finalized"

\* seq holds the START marker of invocation i, later the lines it read, in
\* order, and its END marker as last entry.
HoldsRun(seq, i) ==
  \E p \in 1..Len(seq) :
    /\ seq[p] = StartText(runs[i].action)
    /\ p + 1 + Len(runs[i].output) < Len(seq)
    /\ SubSeq(seq, p + 2, p + 1 + Len(runs[i].output)) = runs[i].output
    /\ seq[Len(seq)] = EndText(runs[i].action, runs[i].return_code)

\* C33 as stated: when an invocation is finalized, all its lines up to its END
\* marker are already in the history.
C33_DrainedAtNotification ==
  [][\A i \in 1..Len(runs) :
       Finalizes(i) => HoldsRun(full_log', i)]_vars

\* C33, amended: when an invocation is finalized, all its lines up to its END
\* marker have been pushed, in order: they are in the history or still queued
\* for the next drain pass.
C33_PushedAtNotification ==
  [][\A i \in 1..Len(runs) : Finalizes(i) => HoldsRun(Pushed', i)]_vars

\* C33's case: the notification of a successful invocation was shown and the
\* coordinator is Idle while the END marker is still queued, not yet displayed.
C33_Witness ==
  \E i \in 1..Len(runs) :
    /\ runs[i].pc = "finalized" /\ runs[i].notified = <<"showinfo">>
    /\ current_action = NONE
    /\ log_queue # <<>>
    /\ log_queue[Len(log_queue)].text = EndText(runs[i].action, 0)
    /\ \A k \in 1..Len(full_log) : full_log[k] # EndText(runs[i].action, 0)

\* The step in which a call run_bash_script(a) is accepted: a worker is started.
Accepted(a) == Len(runs') = Len(runs) + 1 /\ runs'[Len(runs')].action = a

\* No invocation of action b is under way.
Settled(b) == \A i \in 1..Len(runs) : runs[i].action = b => runs[i].pc = "finalized"

\* C34: an accepted call for action a sets a's two badges to 0 and leaves the
\* badges of every other action as they were; the error badge an invocation of b
\* left behind changes only when b is called again or clear_log runs while Idle.
C34_TriggerResetsOwnBadgesOnly ==
  [][/\ \A a \in ActionKeys :
          Accepted(a) =>
            /\ badges'[a] = [success |-> 0, error |-> 0]
            /\ \A b \in ActionKeys \ {a} : badges'[b] = badges[b]
     /\ \A b \in ActionKeys :
          Settled(b) /\ badges'[b].error # badges[b].error =>
            \/ Accepted(b)
            \/ current_action = NONE /\ clear_log]_vars

\* C34's case: an invocation of install failed and left its error badge, then an
\* invocation of execute was accepted and has finished, and the error badge of
\* install is still shown.
C34_Witness ==
  \E i, j \in 1..Len(runs) :
    /\ i < j
    /\ runs[i].action = "install" /\ runs[i].pc = "finalized" /\ runs[i].return_code # 0
    /\ runs[j].action = "execute" /\ runs[j].pc = "finalized"
    /\ badges["install"].error > 0
    /\ badges["execute"].error > 0

====
